---- MODULE Spec2Model ----
(***************************************************************************)
(* Model of fridge_recipe_generator (src/main.py): the JSON-backed         *)
(* ingredient inventory (save_inventory / load_inventory), the Streamlit   *)
(* script run (credential check, add form, data-editor reconciliation,     *)
(* prompt construction) and the single generation request.                 *)
(*                                                                         *)
(* Text is modelled as a sequence of one-character strings, so that        *)
(* formatting and parsing are computed and not assumed to be inverse.      *)
(* Quantities are counted in tenths (the number_input step is 0.1).        *)
(***************************************************************************)
EXTENDS Integers, Sequences, FiniteSets, TLC

\* ------------------------------------------------------------------ bounds

\* Longest inventory the model builds (the add form and the editor's
\* "add row" are disabled at this length).
MaxInv == 2

\* ------------------------------------------------------------ text helpers

Digits == <<"0", "1", "2", "3", "4", "5", "6", "7", "8", "9">>

IsDigit(c) == \E i \in 1..10 : Digits[i] = c

DigitVal(c) == (CHOOSE i \in 1..10 : Digits[i] = c) - 1

DigitChar(n) == Digits[n + 1]

AllDigits(s) == \A i \in 1..Len(s) : IsDigit(s[i])

\* int(s) for a string of decimal digits
RECURSIVE ParseNat(_)
ParseNat(s) ==
    IF s = <<>> THEN 0
    ELSE 10 * ParseNat(SubSeq(s, 1, Len(s) - 1)) + DigitVal(s[Len(s)])

\* str(n) for n >= 0
RECURSIVE NatText(_)
NatText(n) ==
    IF n < 10 THEN <<DigitChar(n)>>
    ELSE Append(NatText(n \div 10), DigitChar(n % 10))

\* "%0{w}d" % n
RECURSIVE ZeroPad(_, _)
ZeroPad(s, w) == IF Len(s) >= w THEN s ELSE ZeroPad(<<"0">> \o s, w)

\* str.strip(): surrounding whitespace removed
RECURSIVE lstrip(_)
lstrip(s) == IF s # <<>> /\ Head(s) = " " THEN lstrip(Tail(s)) ELSE s

RECURSIVE rstrip(_)
rstrip(s) ==
    IF s # <<>> /\ s[Len(s)] = " " THEN rstrip(SubSeq(s, 1, Len(s) - 1)) ELSE s

strip(s) == rstrip(lstrip(s))

\* Python truthiness of a str
Truthy(s) == s # <<>>

\* --------------------------------------------------------------- calendar

IsLeap(y) == (y % 4 = 0 /\ y % 100 # 0) \/ y % 400 = 0

DaysInMonth(y, m) ==
    IF m = 2 THEN (IF IsLeap(y) THEN 29 ELSE 28)
    ELSE IF m \in {4, 6, 9, 11} THEN 30 ELSE 31

ValidYMD(y, m, d) ==
    /\ y \in 1..9999
    /\ m \in 1..12
    /\ d \in 1..DaysInMonth(y, m)

\* ----------------------------------------------------- in-memory values
\* A value of the "expiry" field in memory:
\*   tag "date": datetime.date(y, m, d)
\*   tag "ts"  : pandas.Timestamp (date plus time of day, tod in minutes)
\*   tag "str" : a str, text in s
\*   tag "none": None

MkDate(y, m, d) == [tag |-> "date", y |-> y, m |-> m, d |-> d, tod |-> 0, s |-> <<>>]

MkTs(y, m, d, tod) == [tag |-> "ts", y |-> y, m |-> m, d |-> d, tod |-> tod, s |-> <<>>]

MkStr(s) == [tag |-> "str", y |-> 0, m |-> 0, d |-> 0, tod |-> 0, s |-> s]

None == [tag |-> "none", y |-> 0, m |-> 0, d |-> 0, tod |-> 0, s |-> <<>>]

\* a raised exception, as the result of an expression
Raise == [ok |-> FALSE, val |-> None]

Return(v) == [ok |-> TRUE, val |-> v]

\* Mutant of isoformat: the fields are not zero-padded ("2025-6-1").
isoformat_unpadded(v) ==
    NatText(v.y) \o <<"-">> \o NatText(v.m) \o <<"-">> \o NatText(v.d)

\* str(datetime.date): "%04d-%02d-%02d"
isoformat(v) ==
    ZeroPad(NatText(v.y), 4) \o <<"-">> \o ZeroPad(NatText(v.m), 2)
        \o <<"-">> \o ZeroPad(NatText(v.d), 2)

\* str(pandas.Timestamp): "YYYY-MM-DD HH:MM:SS"
TimestampText(v) ==
    isoformat(v) \o <<" ">> \o ZeroPad(NatText(v.tod \div 60), 2) \o <<":">>
        \o ZeroPad(NatText(v.tod % 60), 2) \o <<":", "0", "0">>

\* date.fromisoformat(s): YYYY-MM-DD only, ValueError otherwise
fromisoformat(s) ==
    IF /\ Len(s) = 10
       /\ s[5] = "-"
       /\ s[8] = "-"
       /\ AllDigits(SubSeq(s, 1, 4))
       /\ AllDigits(SubSeq(s, 6, 7))
       /\ AllDigits(SubSeq(s, 9, 10))
       /\ ValidYMD(ParseNat(SubSeq(s, 1, 4)), ParseNat(SubSeq(s, 6, 7)),
                   ParseNat(SubSeq(s, 9, 10)))
    THEN Return(MkDate(ParseNat(SubSeq(s, 1, 4)), ParseNat(SubSeq(s, 6, 7)),
                       ParseNat(SubSeq(s, 9, 10))))
    ELSE Raise

\* pd.to_datetime(s).date(): the generic parse.  Accepted here: YYYYMMDD,
\* YYYY/MM/DD, YYYY-MM-DD and YYYY-MM-DD HH:MM:SS; the time of day is
\* dropped by .date().  The empty string parses to NaT, whose .date()
\* raises; any other text raises in the parser.
to_datetime_date(s) ==
    LET ymd(a, b, c) ==
            IF AllDigits(a) /\ AllDigits(b) /\ AllDigits(c)
               /\ ValidYMD(ParseNat(a), ParseNat(b), ParseNat(c))
            THEN Return(MkDate(ParseNat(a), ParseNat(b), ParseNat(c)))
            ELSE Raise
    IN  IF Len(s) = 8
        THEN ymd(SubSeq(s, 1, 4), SubSeq(s, 5, 6), SubSeq(s, 7, 8))
        ELSE IF Len(s) = 10 /\ s[5] = s[8] /\ s[5] \in {"/", "-"}
        THEN ymd(SubSeq(s, 1, 4), SubSeq(s, 6, 7), SubSeq(s, 9, 10))
        ELSE IF /\ Len(s) = 19
                /\ s[5] = "-" /\ s[8] = "-" /\ s[11] = " "
                /\ s[14] = ":" /\ s[17] = ":"
                /\ AllDigits(SubSeq(s, 12, 13))
                /\ AllDigits(SubSeq(s, 15, 16))
                /\ AllDigits(SubSeq(s, 18, 19))
                /\ ParseNat(SubSeq(s, 12, 13)) < 24
                /\ ParseNat(SubSeq(s, 15, 16)) < 60
                /\ ParseNat(SubSeq(s, 18, 19)) < 60
        THEN ymd(SubSeq(s, 1, 4), SubSeq(s, 6, 7), SubSeq(s, 9, 10))
        ELSE Raise

\* The date rule shared by load_inventory and the reconcile loop:
\*   str       -> fromisoformat, on ValueError pd.to_datetime(..).date()
\*   Timestamp -> .date()
\*   otherwise -> the value as it is
normalize_expiry(exp) ==
    IF exp.tag = "str"
    THEN (IF fromisoformat(exp.s).ok THEN fromisoformat(exp.s)
          ELSE to_datetime_date(exp.s))
    ELSE IF exp.tag = "ts" THEN Return(MkDate(exp.y, exp.m, exp.d))
    ELSE Return(exp)

\* ------------------------------------------------------------ enumerations

\* the form's unit choices (line 74)
Units == {"g", "kg", "lb", "oz", "ml", "L", "ge", "pian", "bei", "shao", "fen"}

\* the form's category choices (line 76): rou, cai, zhushi, shuiguo,
\* jiangliao, yinliao
Categories == {"meat", "veg", "staple", "fruit", "sauce", "drink"}

\* Order of the category strings under Python's str comparison (code
\* points): zhushi 4E3B < shuiguo 6C34 < rou 8089 < cai 83DC < jiangliao
\* 9171 < yinliao 996E.
CategoryRank(c) ==
    CASE c = "staple" -> 1
      [] c = "fruit" -> 2
      [] c = "meat" -> 3
      [] c = "veg" -> 4
      [] c = "sauce" -> 5
      [] c = "drink" -> 6

\* An ingredient record in memory.  quantity is in tenths.
Ingredient(n, q, u, e, c) ==
    [name |-> n, quantity |-> q, unit |-> u, expiry |-> e, category |-> c]

\* ------------------------------------------------------------------- JSON

\* json.dumps of a str (ensure_ascii=False): quote and backslash escaped
RECURSIVE json_escape(_)
json_escape(s) ==
    IF s = <<>> THEN <<>>
    ELSE (IF Head(s) \in {"\"", "\\"} THEN <<"\\", Head(s)>> ELSE <<Head(s)>>)
             \o json_escape(Tail(s))

\* json.loads of a string literal's body
RECURSIVE json_unescape(_)
json_unescape(s) ==
    IF s = <<>> THEN <<>>
    ELSE IF Head(s) = "\\" /\ Len(s) >= 2
    THEN <<s[2]>> \o json_unescape(SubSeq(s, 3, Len(s)))
    ELSE <<Head(s)>> \o json_unescape(Tail(s))

\* repr of a float with one decimal: 30 tenths -> "3.0"
float_repr(q) == NatText(q \div 10) \o <<".">> \o <<DigitChar(q % 10)>>

\* json.loads of a number: "3.5" -> 35 tenths, "3" -> 30 tenths
parse_number(s) ==
    LET dot == {i \in 1..Len(s) : s[i] = "."}
    IN  IF dot = {} THEN 10 * ParseNat(s)
        ELSE LET i == CHOOSE j \in dot : TRUE
             IN  10 * ParseNat(SubSeq(s, 1, i - 1))
                     + ParseNat(SubSeq(s, i + 1, i + 1))

\* A JSON value of the "expiry" key: a string (t = "str") or null.
JsonStr(s) == [t |-> "str", s |-> s]

JsonNull == [t |-> "null", s |-> <<>>]

\* json.dumps(value, default=str) for an expiry value: date and Timestamp
\* are not JSON types and go through str(); a str is escaped; None is null.
dumps_expiry(e) ==
    CASE e.tag = "date" -> JsonStr(isoformat(e))
      [] e.tag = "ts" -> JsonStr(TimestampText(e))
      [] e.tag = "str" -> JsonStr(json_escape(e.s))
      [] e.tag = "none" -> JsonNull

dumps_item(r) ==
    [name |-> json_escape(r.name), quantity |-> float_repr(r.quantity),
     unit |-> r.unit, expiry |-> dumps_expiry(r.expiry),
     category |-> r.category]

loads_item(j) ==
    [name |-> json_unescape(j.name), quantity |-> parse_number(j.quantity),
     unit |-> j.unit,
     expiry |-> IF j.expiry.t = "str" THEN MkStr(json_unescape(j.expiry.s))
                ELSE None,
     category |-> j.category]

\* ------------------------------------------------------- the backing file
\* kind "absent" : inventory.json does not exist
\*      "empty"  : it exists with size 0
\*      "json"   : it holds the complete JSON list `items`
\*      "partial": it holds a proper, non-empty prefix of a JSON text (the
\*                 first `items` were written); json.loads raises on it

Absent == [kind |-> "absent", items |-> <<>>]

Empty == [kind |-> "empty", items |-> <<>>]

JsonFile(items) == [kind |-> "json", items |-> items]

Partial(items) == [kind |-> "partial", items |-> items]

\* save_inventory: the text DATA_PATH.write_text receives
save_inventory(inv) == JsonFile([i \in 1..Len(inv) |-> dumps_item(inv[i])])

\* What a process that dies inside DATA_PATH.write_text can leave behind:
\* the old file (before open), the truncated file (open(.., "w") done,
\* nothing flushed), a proper prefix of the text (k records written), or
\* the whole text.
torn_writes(old, new) ==
    {old, Empty, new}
        \cup {Partial(SubSeq(new.items, 1, k)) : k \in 0..(Len(new.items) - 1)}

\* load_inventory: [ok |-> FALSE] is a raised exception
load_inventory(f) ==
    IF f.kind \in {"absent", "empty"} THEN [ok |-> TRUE, inv |-> <<>>]
    ELSE IF f.kind # "json" THEN [ok |-> FALSE, inv |-> <<>>]
    ELSE LET raw == [i \in 1..Len(f.items) |-> loads_item(f.items[i])]
         IN  IF \E i \in 1..Len(raw) : ~normalize_expiry(raw[i].expiry).ok
             THEN [ok |-> FALSE, inv |-> <<>>]
             ELSE [ok |-> TRUE,
                   inv |-> [i \in 1..Len(raw) |->
                              [raw[i] EXCEPT !.expiry = normalize_expiry(@).val]]]

\* ------------------------------------------------------------ sorted view

\* DataFrame.sort_values(["category", "expiry"]): rows ordered by category
\* string, then by expiry date with missing values last.
SortsBefore(a, b) ==
    \/ CategoryRank(a.category) < CategoryRank(b.category)
    \/ /\ a.category = b.category
       /\ a.expiry.tag = "date"
       /\ \/ b.expiry.tag # "date"
          \/ a.expiry.y < b.expiry.y
          \/ a.expiry.y = b.expiry.y /\ a.expiry.m < b.expiry.m
          \/ a.expiry.y = b.expiry.y /\ a.expiry.m = b.expiry.m
                /\ a.expiry.d < b.expiry.d

\* Mutant of insert_row: x goes in front of the rows it ties with (the
\* sort is no longer stable).
RECURSIVE insert_row_unstable(_, _)
insert_row_unstable(rows, x) ==
    IF rows = <<>> THEN <<x>>
    ELSE IF ~SortsBefore(Head(rows), x) THEN <<x>> \o rows
    ELSE <<Head(rows)>> \o insert_row_unstable(Tail(rows), x)

\* x placed behind every row that does not sort after it (a stable sort)
RECURSIVE insert_row(_, _)
insert_row(rows, x) ==
    IF rows = <<>> THEN <<x>>
    ELSE IF SortsBefore(x, Head(rows)) THEN <<x>> \o rows
    ELSE <<Head(rows)>> \o insert_row(Tail(rows), x)

RECURSIVE sort_values(_)
sort_values(rows) ==
    IF rows = <<>> THEN <<>>
    ELSE insert_row(sort_values(SubSeq(rows, 1, Len(rows) - 1)), rows[Len(rows)])

\* ------------------------------------------------------------ data editor

RemoveAt(rows, i) == SubSeq(rows, 1, i - 1) \o SubSeq(rows, i + 1, Len(rows))

NoEdit == [op |-> "none", row |-> 0, val |-> None]

\* what st.data_editor returns for the view `df` under the user's edit
data_editor(df, e) ==
    CASE e.op = "none" -> df
      [] e.op = "delete" -> RemoveAt(df, e.row)
      [] e.op = "expiry" -> [df EXCEPT ![e.row].expiry = e.val]
      [] e.op = "add" -> Append(df, Ingredient(<<"t">>, 10, "ge", e.val, "fruit"))

\* Mutant of reconcile_expiry: the edited value is stored as it came.
reconcile_expiry_passthrough(exp) == Return(exp)

\* The reconcile loop's date rule (lines 100-108)
reconcile_expiry(exp) ==
    IF exp.tag = "str"
    THEN (IF fromisoformat(exp.s).ok THEN fromisoformat(exp.s)
          ELSE to_datetime_date(exp.s))
    ELSE IF exp.tag = "ts" THEN Return(MkDate(exp.y, exp.m, exp.d))
    ELSE Return(exp)

\* Mutant of reconcile: the rows normalized before the failing one are
\* stored when the loop raises.
reconcile_partial(inv, e) ==
    LET edited == data_editor(sort_values(inv), e)
        bad == {i \in 1..Len(edited) : ~reconcile_expiry(edited[i].expiry).ok}
    IN  IF bad # {}
        THEN [ok |-> FALSE,
              inv |-> [i \in 1..((CHOOSE b \in bad : \A c \in bad : b <= c) - 1) |->
                         [edited[i] EXCEPT !.expiry = reconcile_expiry(@).val]]]
        ELSE [ok |-> TRUE,
              inv |-> [i \in 1..Len(edited) |->
                         [edited[i] EXCEPT !.expiry = reconcile_expiry(@).val]]]

\* Lines 90-111 for a non-empty inventory: the sorted view, the user's
\* edit, the loop building updated_inv.  ok = FALSE: the loop raised, and
\* the assignment and the save of lines 110-111 were not reached.
reconcile(inv, e) ==
    LET edited == data_editor(sort_values(inv), e)
    IN  IF \E i \in 1..Len(edited) : ~reconcile_expiry(edited[i].expiry).ok
        THEN [ok |-> FALSE, inv |-> inv]
        ELSE [ok |-> TRUE,
              inv |-> [i \in 1..Len(edited) |->
                         [edited[i] EXCEPT !.expiry = reconcile_expiry(@).val]]]

\* --------------------------------------------------------- prompt builder
\* The prompt is a sequence of lines; a line is its kind and its text.

Line(k, t) == [kind |-> k, text |-> t]

StrictClause == Line("clause", <<"do not exceed stock">>)

LenientClause == Line("clause", <<"additional ingredients needed">>)

\* f"- {name} ({quantity}{unit}, {category}, expiring {expiry})"
inv_line(i) ==
    Line("item",
         <<"- ">> \o i.name \o <<" (">> \o float_repr(i.quantity) \o <<i.unit, ", ">>
            \o <<i.category, ", expiring ">>
            \o (CASE i.expiry.tag = "date" -> isoformat(i.expiry)
                  [] i.expiry.tag = "ts" -> TimestampText(i.expiry)
                  [] i.expiry.tag = "str" -> i.expiry.s
                  [] i.expiry.tag = "none" -> <<"None">>)
            \o <<")">>)

\* Mutant of build_prompt: the two strictness clauses are exchanged.
build_prompt_swapped(inv, days, strict) ==
    <<Line("fixed", <<"dietitian role">>),
      Line("days", NatText(days)),
      Line("fixed", <<"general requirements">>),
      Line("fixed", <<"dish format">>),
      Line("fixed", <<"ingredients and stock">>),
      IF strict THEN LenientClause ELSE StrictClause,
      Line("fixed", <<"daily summary">>),
      Line("fixed", <<"no stock annotations">>),
      Line("fixed", <<"stock header">>)>>
        \o [k \in 1..Len(inv) |-> inv_line(inv[k])]

\* lines 126-161
build_prompt(inv, days, strict) ==
    <<Line("fixed", <<"dietitian role">>),
      Line("days", NatText(days)),
      Line("fixed", <<"general requirements">>),
      Line("fixed", <<"dish format">>),
      Line("fixed", <<"ingredients and stock">>),
      IF strict THEN StrictClause ELSE LenientClause,
      Line("fixed", <<"daily summary">>),
      Line("fixed", <<"no stock annotations">>),
      Line("fixed", <<"stock header">>)>>
        \o [k \in 1..Len(inv) |-> inv_line(inv[k])]

HasLine(p, l) == \E k \in 1..Len(p) : p[k] = l

\* ---------------------------------------------------------------- gateway
\* What client.chat.completions.create does, seen from the script: it
\* returns a response whose content is text, returns one whose content is
\* None, or raises.

ServiceReplies ==
    {[kind |-> "text", msg |-> "plan"],
     [kind |-> "nocontent", msg |-> "'NoneType' object has no attribute 'strip'"],
     [kind |-> "raise", msg |-> "connection error"],
     [kind |-> "raise", msg |-> "401 invalid api key"],
     [kind |-> "raise", msg |-> "500 server error"]}

\* Mutant of request: a failed call is tried once more.
request_retry(reply) ==
    IF reply.kind = "text"
    THEN [outcome |-> "markdown", shown |-> reply.msg, calls |-> 1, escaped |-> FALSE]
    ELSE [outcome |-> "error", shown |-> reply.msg, calls |-> 2, escaped |-> FALSE]

\* lines 164-177: one create call inside try/except Exception
request(reply) ==
    IF reply.kind = "text"
    THEN [outcome |-> "markdown", shown |-> reply.msg, calls |-> 1, escaped |-> FALSE]
    ELSE [outcome |-> "error", shown |-> reply.msg, calls |-> 1, escaped |-> FALSE]

\* ------------------------------------------------------------ credentials

NoKey == <<>>

\* a or b or c
load_api_key(env, secret, nested) ==
    IF Truthy(env) THEN env ELSE IF Truthy(secret) THEN secret ELSE nested

\* Mutant of ensure_key: the st.stop() of line 31 is missing.
ensure_key_nostop(env, secret, nested, typed) ==
    LET key == IF Truthy(load_api_key(env, secret, nested))
               THEN load_api_key(env, secret, nested)
               ELSE typed
    IN  [stopped |-> FALSE, key |-> key]

\* ensure_key: the sidebar input is read when nothing is configured;
\* st.stop() ends the run when there is still no key
ensure_key(env, secret, nested, typed) ==
    LET key == IF Truthy(load_api_key(env, secret, nested))
               THEN load_api_key(env, secret, nested)
               ELSE typed
    IN  [stopped |-> ~Truthy(key), key |-> key]

\* --------------------------------------------------------------- add form

\* lines 77-86: `submitted and name` guards the append of the record,
\* whose name is name.strip()
add_ingredient(inv, f) ==
    IF Truthy(f.name)
    THEN [accepted |-> TRUE,
          inv |-> Append(inv, Ingredient(strip(f.name), f.quantity, f.unit,
                                         f.expiry, f.category))]
    ELSE [accepted |-> FALSE, inv |-> inv]

\* ----------------------------------------------------------------- inputs

D1 == MkDate(2025, 6, 1)

D2 == MkDate(2025, 5, 20)

IsoText == <<"2", "0", "2", "5", "-", "0", "6", "-", "0", "1">>

SlashText == <<"2", "0", "2", "5", "/", "0", "5", "/", "2", "0">>

BadText == <<"2", "0", "2", "5", "-", "0", "6", "-", "0", "x">>

\* What the add form can hold when it is submitted (lines 72-76): the
\* defaults with an empty or a blank name, and two filled-in forms.
FormInputs ==
    {[name |-> <<>>, quantity |-> 0, unit |-> "g", expiry |-> D1, category |-> "veg"],
     [name |-> <<" ", " ">>, quantity |-> 0, unit |-> "g", expiry |-> D1,
      category |-> "veg"],
     [name |-> <<" ", "e", " ">>, quantity |-> 15, unit |-> "g", expiry |-> D2,
      category |-> "meat"],
     [name |-> <<"r", "\"">>, quantity |-> 3000, unit |-> "kg", expiry |-> D1,
      category |-> "veg"]}

\* What an edited expiry cell can hold: ISO text, generic text, text that
\* is no date, empty text, a Timestamp with a time of day, nothing.
EditedExpiry ==
    {MkStr(IsoText), MkStr(SlashText), MkStr(BadText), MkStr(<<>>),
     MkTs(2025, 6, 1, 630), None}

\* What the expiry cell of a row added in the editor can hold
AddedExpiry == {MkStr(SlashText), MkStr(<<>>), None}

\* The edits of one script run on a view of n rows
Edits(n) ==
    {NoEdit}
        \cup {[op |-> "delete", row |-> i, val |-> None] : i \in 1..n}
        \cup {[op |-> "expiry", row |-> i, val |-> v] : i \in 1..n, v \in EditedExpiry}
        \cup (IF n < MaxInv
              THEN {[op |-> "add", row |-> 0, val |-> v] : v \in AddedExpiry}
              ELSE {})

AllEdits == UNION {Edits(n) : n \in 1..MaxInv}

\* Contents of inventory.json when a session starts
InitFiles ==
    {Absent, Empty, Partial(<<>>),
     JsonFile(<<[name |-> <<"r">>, quantity |-> <<"3", "0", "0">>, unit |-> "g",
                 expiry |-> JsonStr(IsoText), category |-> "veg"],
                [name |-> <<"e">>, quantity |-> <<"1", ".", "5">>, unit |-> "g",
                 expiry |-> JsonStr(IsoText), category |-> "meat"]>>),
     JsonFile(<<[name |-> <<"e">>, quantity |-> <<"1", ".", "5">>, unit |-> "g",
                 expiry |-> JsonStr(SlashText), category |-> "meat"]>>),
     JsonFile(<<[name |-> <<"e">>, quantity |-> <<"1", ".", "5">>, unit |-> "g",
                 expiry |-> JsonNull, category |-> "meat"]>>),
     JsonFile(<<[name |-> <<"e">>, quantity |-> <<"1", ".", "5">>, unit |-> "g",
                 expiry |-> JsonStr(BadText), category |-> "meat"]>>)}

\* the user's API key
UserKey == <<"s", "k">>

\* Where the key is found in one run: in the environment variable, the
\* secrets source, its "api" section, the sidebar input (NoKey: absent
\* or empty), in none of them, or in several
Credentials ==
    {[env |-> NoKey, secret |-> NoKey, nested |-> NoKey, typed |-> NoKey],
     [env |-> NoKey, secret |-> NoKey, nested |-> NoKey, typed |-> UserKey],
     [env |-> NoKey, secret |-> NoKey, nested |-> UserKey, typed |-> NoKey],
     [env |-> NoKey, secret |-> UserKey, nested |-> NoKey, typed |-> NoKey],
     [env |-> UserKey, secret |-> NoKey, nested |-> NoKey, typed |-> NoKey],
     [env |-> UserKey, secret |-> UserKey, nested |-> NoKey, typed |-> UserKey]}

\* the day selectbox offers 1..14 (line 122); the model takes both ends
MinDays == 1

MaxDays == 14

DayChoices == {MinDays, MaxDays}

\* ------------------------------------------------------------------ state

VARIABLES
    file,       \* the content of inventory.json
    loaded,     \* "inventory" in st.session_state
    inventory,  \* st.session_state.inventory
    api_key,    \* st.session_state.api_key (NoKey: None)
    pc,         \* where the script run is
    last,       \* what the latest step did (add form, reconcile)
    gen         \* this run's generation: prompt, request, outcome

vars == <<file, loaded, inventory, api_key, pc, last, gen>>

Step(s, n, e, pi, pf) ==
    [step |-> s, name |-> n, edit |-> e, prevInv |-> pi, prevFile |-> pf]

OtherStep == Step("other", <<>>, NoEdit, <<>>, Absent)

NoReply == [kind |-> "none", msg |-> ""]

\* prompt, strict, days: what BuildPrompt built; reply: what the service
\* answered; calls: create calls made; sent_key: the key they carried;
\* outcome, shown: what the page shows; escaped: an exception left the
\* try block; inv0, file0: inventory and file when the request was sent
GenNone ==
    [prompt |-> <<>>, strict |-> FALSE, days |-> 0, reply |-> NoReply,
     calls |-> 0, sent_key |-> NoKey, outcome |-> "none", shown |-> "",
     escaped |-> FALSE, inv0 |-> <<>>, file0 |-> Absent]

Init ==
    /\ file \in InitFiles
    /\ loaded = FALSE
    /\ inventory = <<>>
    /\ api_key = NoKey
    /\ pc = "begin"
    /\ last = OtherStep
    /\ gen = GenNone

\* The process is gone, and st.session_state with it.
Crashed ==
    /\ pc' = "crashed"
    /\ loaded' = FALSE
    /\ inventory' = <<>>
    /\ api_key' = NoKey
    /\ last' = OtherStep
    /\ gen' = GenNone

\* lines 58-61: the first run of a session loads the inventory; an
\* exception in load_inventory ends the run
LoadSession ==
    /\ pc = "begin"
    /\ ~loaded
    /\ LET r == load_inventory(file)
       IN  IF r.ok
           THEN /\ loaded' = TRUE
                /\ inventory' = r.inv
                /\ pc' = "ensure_key"
                /\ last' = Step("loaded", <<>>, NoEdit, <<>>, file)
           ELSE /\ pc' = "aborted"
                /\ last' = Step("load_failed", <<>>, NoEdit, <<>>, file)
                /\ UNCHANGED <<loaded, inventory>>
    /\ UNCHANGED <<file, api_key, gen>>

\* lines 67-68
EnsureKey(c) ==
    /\ pc = "ensure_key"
    /\ LET k == ensure_key(c.env, c.secret, c.nested, c.typed)
       IN  IF k.stopped
           THEN pc' = "stopped" /\ UNCHANGED api_key
           ELSE pc' = "form" /\ api_key' = k.key
    /\ last' = OtherStep
    /\ UNCHANGED <<file, loaded, inventory, gen>>

\* lines 77-88 when the submit button was pressed with form content f
AddIngredient(f) ==
    /\ pc = "form"
    /\ Truthy(f.name) => Len(inventory) < MaxInv
    /\ LET a == add_ingredient(inventory, f)
       IN  IF a.accepted
           THEN /\ inventory' = a.inv
                /\ file' = save_inventory(a.inv)
                /\ pc' = "ensure_key"
                /\ last' = Step("added", f.name, NoEdit, <<>>, Absent)
           ELSE /\ pc' = "editor"
                /\ last' = Step("rejected", f.name, NoEdit, <<>>, Absent)
                /\ UNCHANGED <<inventory, file>>
    /\ UNCHANGED <<loaded, api_key, gen>>

\* the process dies inside the save_inventory call of line 87; the
\* session state dies with it
AddCrash(f) ==
    /\ pc = "form"
    /\ Len(inventory) < MaxInv
    /\ add_ingredient(inventory, f).accepted
    /\ file' \in torn_writes(file, save_inventory(add_ingredient(inventory, f).inv))
    /\ Crashed

\* the run was not started by the form's submit button
NoSubmit ==
    /\ pc = "form"
    /\ pc' = "editor"
    /\ last' = OtherStep
    /\ UNCHANGED <<file, loaded, inventory, api_key, gen>>

\* lines 90-111 with the user's edit e of the view
Reconcile(e) ==
    /\ pc = "editor"
    /\ inventory # <<>>
    /\ e \in Edits(Len(inventory))
    /\ LET r == reconcile(inventory, e)
       IN  /\ inventory' = r.inv
           /\ IF r.ok
              THEN /\ file' = save_inventory(r.inv)
                   /\ pc' = "plan"
                   /\ last' = Step("reconciled", <<>>, e, inventory, file)
              ELSE /\ file' = file
                   /\ pc' = "aborted"
                   /\ last' = Step("reconcile_failed", <<>>, e, inventory, file)
    /\ UNCHANGED <<loaded, api_key, gen>>

\* the process dies inside the save_inventory call of line 111
ReconcileCrash(e) ==
    /\ pc = "editor"
    /\ inventory # <<>>
    /\ e \in Edits(Len(inventory))
    /\ LET r == reconcile(inventory, e)
       IN  /\ r.ok
           /\ file' \in torn_writes(file, save_inventory(r.inv))
    /\ Crashed

\* lines 118-119
EmptyInfo ==
    /\ pc = "editor"
    /\ inventory = <<>>
    /\ pc' = "plan"
    /\ last' = OtherStep
    /\ UNCHANGED <<file, loaded, inventory, api_key, gen>>

\* lines 121-161: the button was pressed; the prompt is built
BuildPrompt(days, strict) ==
    /\ pc = "plan"
    /\ inventory # <<>>
    /\ gen' = [gen EXCEPT !.prompt = build_prompt(inventory, days, strict),
                          !.strict = strict, !.days = days]
    /\ pc' = "request"
    /\ last' = OtherStep
    /\ UNCHANGED <<file, loaded, inventory, api_key>>

\* no inventory, or the button was not pressed: the run ends
NoGenerate ==
    /\ pc = "plan"
    /\ pc' = "idle"
    /\ last' = OtherStep
    /\ UNCHANGED <<file, loaded, inventory, api_key, gen>>

\* lines 164-177
SendRequest(reply) ==
    /\ pc = "request"
    /\ LET r == request(reply)
       IN  /\ gen' = [gen EXCEPT !.reply = reply, !.calls = @ + r.calls,
                                 !.sent_key = api_key, !.outcome = r.outcome,
                                 !.shown = r.shown, !.escaped = r.escaped,
                                 !.inv0 = inventory, !.file0 = file]
           /\ pc' = IF r.escaped THEN "aborted" ELSE "idle"
    /\ last' = OtherStep
    /\ UNCHANGED <<file, loaded, inventory, api_key>>

\* the next user interaction runs the script again from the top
Rerun ==
    /\ pc \in {"idle", "stopped", "aborted"}
    /\ pc' = IF loaded THEN "ensure_key" ELSE "begin"
    /\ gen' = GenNone
    /\ last' = OtherStep
    /\ UNCHANGED <<file, loaded, inventory, api_key>>

\* the program is started again: a new session, the script from the top
Restart ==
    /\ pc = "crashed"
    /\ pc' = "begin"
    /\ UNCHANGED <<file, loaded, inventory, api_key, last, gen>>

Next ==
    \/ LoadSession
    \/ \E c \in Credentials : EnsureKey(c)
    \/ \E f \in FormInputs : AddIngredient(f)
    \/ \E f \in FormInputs : AddCrash(f)
    \/ NoSubmit
    \/ \E e \in AllEdits : Reconcile(e)
    \/ \E e \in AllEdits : ReconcileCrash(e)
    \/ EmptyInfo
    \/ \E d \in DayChoices, s \in BOOLEAN : BuildPrompt(d, s)
    \/ NoGenerate
    \/ \E reply \in ServiceReplies : SendRequest(reply)
    \/ Rerun
    \/ Restart

Spec == Init /\ [][Next]_vars

\* ----------------------------------------------------------- properties

ValidRecord(r) ==
    /\ Truthy(r.name)
    /\ r.quantity >= 0
    /\ r.unit \in Units
    /\ r.category \in Categories
    /\ r.expiry.tag = "date"

ValidInventory(inv) == \A i \in 1..Len(inv) : ValidRecord(inv[i])

Loaded(inv) == [ok |-> TRUE, inv |-> inv]

Occurrences(rows, r) == Cardinality({i \in 1..Len(rows) : rows[i] = r})

IsPermutation(a, b) ==
    /\ Len(a) = Len(b)
    /\ \A i \in 1..Len(a) : Occurrences(a, a[i]) = Occurrences(b, a[i])

IsSortedView(rows) ==
    \A i, j \in 1..Len(rows) : i < j => ~SortsBefore(rows[j], rows[i])

\* C1: a valid inventory (non-empty names, quantities >= 0, units and
\* categories of the enumerations, calendar-date expiries) comes back from
\* save_inventory followed by load_inventory with the same records in the
\* same order, every field equal.
C1_RoundTrip ==
    ValidInventory(inventory)
        => load_inventory(save_inventory(inventory)) = Loaded(inventory)

\* a session has loaded a file this program saved, two valid records, one
\* of them with a quote in its name
C1_Witness ==
    /\ last.step = "loaded"
    /\ Len(inventory) = 2
    /\ ValidInventory(inventory)
    /\ file = save_inventory(inventory)
    /\ \E i \in 1..2 : inventory[i].name = <<"r", "\"">>

\* C2: submitting the add form with a name that is empty once trimmed
\* changes neither the inventory in memory nor the backing file.
C2_BlankNameIsNoOp ==
    [][(last'.step \in {"added", "rejected"} /\ strip(last'.name) = <<>>)
          => (inventory' = inventory /\ file' = file)]_vars

\* C3: a load that does not fail returns every stored record, each with a
\* calendar date as its expiry.
C3_LoadFailsOrNormalizes ==
    last.step = "loaded"
        => /\ Len(inventory) = Len(file.items)
           /\ \A i \in 1..Len(inventory) : inventory[i].expiry.tag = "date"

\* C4: a built prompt holds the "do not exceed stock" clause exactly when
\* strict is true and the "additional ingredients needed" clause exactly
\* when strict is false.
C4_StrictnessClause ==
    gen.prompt # <<>>
        => /\ HasLine(gen.prompt, StrictClause) <=> gen.strict
           /\ HasLine(gen.prompt, LenientClause) <=> ~gen.strict

\* a lenient 14-day prompt over two records has been built
C4_Witness ==
    /\ gen.prompt # <<>>
    /\ ~gen.strict
    /\ gen.days = MaxDays
    /\ Len(inventory) = 2

\* C5: a run without a resolved key stops before a prompt is built or a
\* request is sent; past the credential check the session key is
\* non-empty, and every request carries a non-empty key.
C5_NoRequestWithoutKey ==
    /\ pc = "stopped" => gen = GenNone
    /\ pc \in {"form", "editor", "plan", "request"} => Truthy(api_key)
    /\ gen.prompt # <<>> => Truthy(api_key)
    /\ gen.calls > 0 => Truthy(gen.sent_key)

\* a request went out with the user's key
C5_Witness == gen.calls > 0 /\ gen.sent_key = UserKey /\ api_key = UserKey

PendingSaves ==
    {save_inventory(add_ingredient(inventory, f).inv) : f \in FormInputs}
        \cup {save_inventory(reconcile(inventory, e).inv) :
                 e \in Edits(Len(inventory))}

\* C7: a process that dies during save_inventory, the file being valid
\* before, leaves the previous file or the complete new one.
C7_CrashKeepsOldOrNew ==
    [][(pc # "crashed" /\ pc' = "crashed" /\ file.kind = "json"
            /\ load_inventory(file).ok
            /\ ValidInventory(load_inventory(file).inv))
          => file' \in {file} \cup PendingSaves]_vars

\* C8: once an accepted add or a reconciliation has completed,
\* load_inventory on the backing file returns the inventory in memory.
C8_SavedAfterChange ==
    last.step \in {"added", "reconciled"}
        => load_inventory(file) = Loaded(inventory)

\* a reconciliation has normalized an edited Timestamp and saved
C8_Witness ==
    /\ last.step = "reconciled"
    /\ last.edit.op = "expiry"
    /\ last.edit.val.tag = "ts"
    /\ Len(inventory) = 2
    /\ file # last.prevFile

\* C9: a reconciliation that raises on an edited expiry leaves the
\* inventory in memory and the backing file as they were.
C9_FailedReconcileKeepsState ==
    last.step = "reconcile_failed"
        => /\ inventory = last.prevInv
           /\ file = last.prevFile

\* the second row's expiry was edited to text that is no date
C9_Witness ==
    /\ last.step = "reconcile_failed"
    /\ last.edit.op = "expiry"
    /\ last.edit.row = 2
    /\ last.edit.val = MkStr(BadText)
    /\ Len(inventory) = 2

\* C10: reconciling an unedited view yields a permutation of the previous
\* inventory ordered by (category, expiry), and reconciling it again
\* yields the same list.
C10_UneditedReconcile ==
    (last.step = "reconciled" /\ last.edit = NoEdit)
        => /\ IsPermutation(inventory, last.prevInv)
           /\ IsSortedView(inventory)
           /\ reconcile(inventory, NoEdit) = Loaded(inventory)

\* an unedited reconciliation has reordered two records
C10_Witness ==
    /\ last.step = "reconciled"
    /\ last.edit = NoEdit
    /\ Len(inventory) = 2
    /\ inventory # last.prevInv

====
